---- MODULE Spec2Model ----
(***************************************************************************)
(* Hybrid Casper engine support (ethcore/src/engines/hybrid_casper.rs):    *)
(* parameter resolution, genesis state seeding, vote-transaction           *)
(* classification, the system-call bridge to the Casper contract, the      *)
(* epoch driver and the finality-metadata refresh.                         *)
(*                                                                         *)
(* Value representation                                                    *)
(*   Option<T>        <<>> (None) or <<v>> (Some(v))                       *)
(*   Result<T, E>     [ok |-> TRUE, val |-> v] or [ok |-> FALSE, err |-> e]*)
(*   Address          the u64 the 20-byte address was built from           *)
(*   Bytes            a sequence of bytes (0..255)                         *)
(*   u64, U256        a natural number; the three amounts that are         *)
(*                    multiples of one ether (10^18 wei) are decimal       *)
(*                    floats [m, e] standing for m * 10^e, normalised      *)
(*   H256             the 32-byte word read as a number                    *)
(***************************************************************************)
EXTENDS Integers, Sequences, FiniteSets, TLC

VARIABLES
    cfg,        \* the ethjson::spec::HybridCasperParams record handed in
    params,     \* HybridCasper.params: <<>> before `new`, <<p>> after
    metadata,   \* the HybridCasperMetadata the block under processing carries
    state,      \* the State the genesis builder hands to init_state
    last        \* what the last operation was given, did and returned

vars == <<cfg, params, metadata, state, last>>

---------------------------------------------------------------------------
(* Bounds of the model. *)

\* at most this many fields of a configuration record are set
MaxSetFields == 2
\* block numbers run over 0..MaxBlock
MaxBlock == 11
\* transaction payloads are at most this long
MaxDataLen == 5
\* the contract returns 32-byte words 0..MaxWord
MaxWord == 1

---------------------------------------------------------------------------
(* Option and Result. *)

None == <<>>
Some(v) == <<v>>

Ok(v) == [ok |-> TRUE, val |-> v]
Err(e) == [ok |-> FALSE, err |-> e]
Unit == <<>>

\* Into::into on a configured value: the ethjson newtype unwrapped
Into(v) == v
\* Option::map_or(default, Into::into)
MapOrInto(o, default) == IF o = None THEN default ELSE Into(o[1])
\* Option::unwrap_or(default)
UnwrapOr(o, default) == IF o = None THEN default ELSE o[1]

---------------------------------------------------------------------------
(* U256 amounts in ether. *)

RECURSIVE Normalise(_, _)
Normalise(m, e) ==
    IF m = 0 THEN [m |-> 0, e |-> 0]
    ELSE IF m % 10 = 0 THEN Normalise(m \div 10, e + 1)
    ELSE [m |-> m, e |-> e]

\* U256::from(n)
U256From(n) == Normalise(n, 0)
\* U256 * U256
U256Mul(a, b) == Normalise(a.m * b.m, a.e + b.e)
\* ::ethereum::ether(): 10^18 wei
ether == Normalise(1, 18)

---------------------------------------------------------------------------
(* Hex text and byte strings. *)

HexDigits == <<"0", "1", "2", "3", "4", "5", "6", "7",
               "8", "9", "a", "b", "c", "d", "e", "f">>

HexValue(d) == (CHOOSE i \in 1..16 : HexDigits[i] = d) - 1
IsHexDigit(d) == \E i \in 1..16 : HexDigits[i] = d

\* the low `width` hex digits of n, most significant first
RECURSIVE ToHex(_, _)
ToHex(n, width) ==
    IF width = 0 THEN <<>>
    ELSE Append(ToHex(n \div 16, width - 1), HexDigits[(n % 16) + 1])

\* format!("{:x}", address): the 20 bytes as 40 digits, lower case, no prefix
LowerHex(address) == ToHex(address, 40)

\* str::replace(from, to) on a text held as a sequence of tokens
RECURSIVE Replace(_, _, _)
Replace(text, from, to) ==
    IF text = <<>> THEN <<>>
    ELSE IF Head(text) = from THEN to \o Replace(Tail(text), from, to)
    ELSE <<Head(text)>> \o Replace(Tail(text), from, to)

\* rustc_hex::FromHex: two digits a byte; odd length or a non-digit fails
RECURSIVE HexBytes(_)
HexBytes(text) ==
    IF text = <<>> THEN <<>>
    ELSE <<16 * HexValue(text[1]) + HexValue(text[2])>> \o HexBytes(SubSeq(text, 3, Len(text)))

FromHex(text) ==
    IF Len(text) % 2 = 0 /\ \A i \in 1..Len(text) : IsHexDigit(text[i])
    THEN Ok(HexBytes(text))
    ELSE Err("invalid hex")

\* Result::expect: the built-in defaults decode, so the panic arm is never taken
Expect(r) == r.val

---------------------------------------------------------------------------
(* The built-in contract texts (engines/mod.rs). *)

Placeholder == "<rlp_decoder>"
DEFAULT_CASPER_CONTRACT == <<"7", "3", Placeholder, "f", "f">>
DEFAULT_PURITY_CHECKER_CONTRACT == <<"a", "1">>
DEFAULT_MSG_HASHER_CONTRACT == <<"a", "2">>
DEFAULT_RLP_DECODER_CONTRACT == <<"a", "3">>

---------------------------------------------------------------------------
(* HybridCasperParams and its resolution from the configuration record. *)

Fields == <<"contract_code", "contract_address", "contract_balance",
            "purity_checker_contract_code", "purity_checker_contract_address",
            "msg_hasher_contract_code", "msg_hasher_contract_address",
            "rlp_decoder_contract_code", "rlp_decoder_contract_address",
            "deploy_rlp_decoder",
            "epoch_length", "withdrawal_delay", "dynasty_logout_delay",
            "base_interest_factor", "base_penalty_factor", "min_deposit_size",
            "warm_up_period", "non_revert_min_deposits">>

AllFields == {Fields[i] : i \in 1..Len(Fields)}
AddressFields == {"contract_address", "purity_checker_contract_address",
                  "msg_hasher_contract_address", "rlp_decoder_contract_address"}
CodeFields == {"contract_code", "purity_checker_contract_code",
               "msg_hasher_contract_code", "rlp_decoder_contract_code"}
EtherFields == {"contract_balance", "min_deposit_size", "non_revert_min_deposits"}

\* Address::from(0x43u64), the RLP decoder's address when none is configured
MutRlpDecoderAddressOffByOne == 67 - 1
RLP_DECODER_ADDRESS == 67

\* the withdrawal delay when none is configured
MutWithdrawalDelayDigitLost == 150 \div 10
WITHDRAWAL_DELAY == 150

\* impl From<ethjson::spec::HybridCasperParams> for HybridCasperParams
From(p) ==
    LET rlp_decoder_contract_address ==
            MapOrInto(p.rlp_decoder_contract_address, RLP_DECODER_ADDRESS)
    IN  [ contract_code |->
            MapOrInto(p.contract_code,
                  Expect(FromHex(Replace(DEFAULT_CASPER_CONTRACT, Placeholder,
                                         LowerHex(rlp_decoder_contract_address))))),
          contract_address |-> MapOrInto(p.contract_address, 64),
          contract_balance |->
            MapOrInto(p.contract_balance, U256Mul(U256From(1250000), ether)),
          purity_checker_contract_code |->
            MapOrInto(p.purity_checker_contract_code,
                  Expect(FromHex(DEFAULT_PURITY_CHECKER_CONTRACT))),
          purity_checker_contract_address |->
            MapOrInto(p.purity_checker_contract_address, 65),
          msg_hasher_contract_code |->
            MapOrInto(p.msg_hasher_contract_code,
                  Expect(FromHex(DEFAULT_MSG_HASHER_CONTRACT))),
          msg_hasher_contract_address |->
            MapOrInto(p.msg_hasher_contract_address, 66),
          rlp_decoder_contract_code |->
            MapOrInto(p.rlp_decoder_contract_code,
                  Expect(FromHex(DEFAULT_RLP_DECODER_CONTRACT))),
          rlp_decoder_contract_address |-> rlp_decoder_contract_address,
          deploy_rlp_decoder |-> UnwrapOr(p.deploy_rlp_decoder, TRUE),
          epoch_length |-> MapOrInto(p.epoch_length, 5),
          withdrawal_delay |-> MapOrInto(p.withdrawal_delay, WITHDRAWAL_DELAY),
          dynasty_logout_delay |-> MapOrInto(p.dynasty_logout_delay, 70),
          base_interest_factor |-> MapOrInto(p.base_interest_factor, 70000000),
          base_penalty_factor |-> MapOrInto(p.base_penalty_factor, 2000),
          min_deposit_size |->
            MapOrInto(p.min_deposit_size, U256Mul(U256From(5), ether)),
          warm_up_period |-> MapOrInto(p.warm_up_period, 5),
          non_revert_min_deposits |->
            MapOrInto(p.non_revert_min_deposits, U256Mul(U256From(1), ether)) ]

\* ethjson::spec::HybridCasperParams::default(): every field None
EmptyConfig == [f \in AllFields |-> None]

\* impl Default for HybridCasperParams
Default == From(EmptyConfig)

---------------------------------------------------------------------------
(* The configuration records the model starts from. *)

\* 0x40 and 0x43 collide with defaults, 0x99 with none
ConfigAddresses == {64, 67, 153}
ConfigCode == <<96, 0>>

ConfigValues(f) ==
    CASE f \in AddressFields -> ConfigAddresses
      [] f \in CodeFields -> {ConfigCode}
      [] f \in EtherFields -> {U256From(7)}
      [] f = "deploy_rlp_decoder" -> {TRUE, FALSE}
      [] f = "epoch_length" -> {0, 1, 3}
      [] OTHER -> {9}

\* the records over Fields[i..] that set at most k fields, all of them in S
RECURSIVE ConfigsFrom(_, _, _)
ConfigsFrom(i, k, S) ==
    IF i > Len(Fields) THEN {<<>>}
    ELSE LET f == Fields[i]
             unset == {(f :> None) @@ c : c \in ConfigsFrom(i + 1, k, S)}
             set == IF k = 0 \/ f \notin S THEN {}
                    ELSE UNION {{(f :> Some(v)) @@ c : c \in ConfigsFrom(i + 1, k - 1, S)}
                                : v \in ConfigValues(f)}
         IN  unset \cup set

Configs(S) == ConfigsFrom(1, MaxSetFields, S)


---------------------------------------------------------------------------
(* HybridCasperMetadata. *)

\* impl Default for HybridCasperMetadata
DefaultMetadata ==
    [ vote_gas_used |-> 0,
      highest_justified_epoch |-> 0,
      highest_finalized_epoch |-> 0,
      highest_finalized_hash |-> 0 ]

---------------------------------------------------------------------------
(* The state store (state::State), seen through the two calls made on it. *)

Addresses == ConfigAddresses \cup {64, 65, 66, 67}

NoAccount == [exists |-> FALSE, balance |-> U256From(0), nonce |-> 0, code |-> <<>>]
EmptyState == [a \in Addresses |-> NoAccount]

\* State::new_contract(address, balance, nonce): a fresh account, no code
new_contract(st, address, balance, nonce) ==
    [st EXCEPT ![address] =
        [exists |-> TRUE, balance |-> balance, nonce |-> nonce, code |-> <<>>]]

\* State::init_code(address, code): the store answers `outcome`; on Ok the
\* account (created empty when absent) holds the code, on Err nothing changed
init_code(st, address, code, outcome) ==
    IF outcome.ok
    THEN [st EXCEPT ![address] = [@ EXCEPT !.exists = TRUE, !.code = code]]
    ELSE st

\* the `?` conversion into ::error::Error
IntoError(e) == [error |-> e]

---------------------------------------------------------------------------
(* HybridCasper::is_vote_transaction. *)

VoteSelector == <<233, 220, 6, 20>>    \* e9 dc 06 14

\* SignedTransaction::is_unsigned
is_unsigned(transaction) == transaction.unsigned

MutIsVoteSignedAccepted(p, transaction) ==
    IF transaction.action[1] = "Create" THEN FALSE
    ELSE IF transaction.action[2] # p.contract_address THEN FALSE
    ELSE IF Len(transaction.data) < 4 THEN FALSE
    ELSE IF SubSeq(transaction.data, 1, 4) # VoteSelector THEN FALSE
    ELSE TRUE

is_vote_transaction(p, transaction) ==
    IF ~is_unsigned(transaction) THEN FALSE
    ELSE IF transaction.action[1] = "Create" THEN FALSE
    ELSE IF transaction.action[2] # p.contract_address THEN FALSE
    ELSE IF Len(transaction.data) < 4 THEN FALSE
    ELSE IF SubSeq(transaction.data, 1, 4) # VoteSelector THEN FALSE
    ELSE TRUE

---------------------------------------------------------------------------
(* The system-call bridge. *)

\* EngineError::FailedSystemCall(cause)
FailedSystemCall(cause) == [kind |-> "FailedSystemCall", cause |-> cause]

\* .map(|_| ())
Discard(r) == IF r.ok THEN Ok(Unit) ELSE r
\* .map_err(EngineError::FailedSystemCall).map_err(Into::into)
SurfaceError(r) == IF r.ok THEN r ELSE Err(IntoError(FailedSystemCall(r.err)))

\* provider.functions().<function>().input(args): the ABI payload, held as
\* the function it selects and the arguments it encodes
Input(function, args) == [function |-> function, args |-> args]

\* The SystemCall closure. `rs` are the answers the host will give to the
\* coming invocations, in order; one invocation takes the first. `call` is the
\* host's record of the invocation: what it was asked and what it answered.
Caller(rs, address, data) ==
    [ result |-> Head(rs),
      call |-> [address |-> address, data |-> data, result |-> Head(rs)],
      rest |-> Tail(rs) ]

\* ethabi::decode(&[one type], &output) with the error shown as text: an
\* output is the sequence of 32-byte words returned; one word is needed
Decode(output) ==
    IF Len(output) >= 1 THEN Ok(<<output[1]>>) ELSE Err("Invalid data")

\* .and_then(|output| Ok(decode(&[ParamType::Int(128)], &output)
\*     .map_err(..)?[0].clone().to_int().expect(..)))
DecodeInt(r) ==
    IF ~r.ok THEN r
    ELSE IF Decode(r.val).ok THEN Ok(Decode(r.val).val[1]) ELSE Decode(r.val)
\* .and_then(|output| Ok(H256::from_slice(&decode(&[ParamType::FixedBytes(32)],
\*     &output).map_err(..)?[0].clone().to_fixed_bytes().expect(..))))
DecodeHash(r) ==
    IF ~r.ok THEN r
    ELSE IF Decode(r.val).ok THEN Ok(Decode(r.val).val[1]) ELSE Decode(r.val)

init_casper_contract(p, rs) ==
    LET data == Input("init", << p.epoch_length,
                                 p.warm_up_period,
                                 p.withdrawal_delay,
                                 p.dynasty_logout_delay,
                                 p.msg_hasher_contract_address,
                                 p.purity_checker_contract_address,
                                 p.base_interest_factor,
                                 p.base_penalty_factor,
                                 p.min_deposit_size >>)
        c == Caller(rs, p.contract_address, data)
    IN  [ ret |-> SurfaceError(Discard(c.result)),
          calls |-> <<c.call>>,
          rest |-> c.rest ]

\* the epoch index is the block number, undivided
MutOnNewEpochUndivided(p, block_number, rs) ==
    IF p.epoch_length = 0
    THEN [panic |-> TRUE, ret |-> Ok(Unit), calls |-> <<>>, rest |-> rs]
    ELSE IF block_number % p.epoch_length = 0
    THEN LET data == Input("initialize_epoch", <<block_number>>)
             c == Caller(rs, p.contract_address, data)
         IN  [ panic |-> FALSE,
               ret |-> SurfaceError(Discard(c.result)),
               calls |-> <<c.call>>,
               rest |-> c.rest ]
    ELSE [panic |-> FALSE, ret |-> Ok(Unit), calls |-> <<>>, rest |-> rs]

\* `%` and `/` by a zero epoch_length panic; nothing is returned then
on_new_epoch(p, block_number, rs) ==
    IF p.epoch_length = 0
    THEN [panic |-> TRUE, ret |-> Ok(Unit), calls |-> <<>>, rest |-> rs]
    ELSE IF block_number % p.epoch_length = 0
    THEN LET data == Input("initialize_epoch", <<block_number \div p.epoch_length>>)
             c == Caller(rs, p.contract_address, data)
         IN  [ panic |-> FALSE,
               ret |-> SurfaceError(Discard(c.result)),
               calls |-> <<c.call>>,
               rest |-> c.rest ]
    ELSE [panic |-> FALSE, ret |-> Ok(Unit), calls |-> <<>>, rest |-> rs]

\* an output that does not decode reads as epoch zero
MutHighestJustifiedDefaults(p, rs) ==
    LET data == Input("highest_justified_epoch", <<p.non_revert_min_deposits>>)
        c == Caller(rs, p.contract_address, data)
        decoded == IF c.result.ok /\ ~DecodeInt(c.result).ok THEN Ok(0)
                   ELSE DecodeInt(c.result)
    IN  [ ret |-> SurfaceError(decoded),
          calls |-> <<c.call>>,
          rest |-> c.rest ]

highest_justified_epoch(p, rs) ==
    LET data == Input("highest_justified_epoch", <<p.non_revert_min_deposits>>)
        c == Caller(rs, p.contract_address, data)
    IN  [ ret |-> SurfaceError(DecodeInt(c.result)),
          calls |-> <<c.call>>,
          rest |-> c.rest ]

highest_finalized_epoch(p, rs) ==
    LET data == Input("highest_finalized_epoch", <<p.non_revert_min_deposits>>)
        c == Caller(rs, p.contract_address, data)
    IN  [ ret |-> SurfaceError(DecodeInt(c.result)),
          calls |-> <<c.call>>,
          rest |-> c.rest ]

checkpoint_hashes(p, epoch, rs) ==
    LET data == Input("checkpoint_hashes", <<epoch>>)
        c == Caller(rs, p.contract_address, data)
    IN  [ ret |-> SurfaceError(DecodeHash(c.result)),
          calls |-> <<c.call>>,
          rest |-> c.rest ]

---------------------------------------------------------------------------
(* HybridCasper::update_metadata. *)

\* the checkpoint is looked up for the finalized epoch the metadata came with
MutUpdateMetadataStaleEpoch(p, m, rs) ==
    LET q1 == highest_justified_epoch(p, rs) IN
    IF ~q1.ret.ok THEN [ret |-> q1.ret, metadata |-> m, calls |-> q1.calls]
    ELSE
    LET m1 == [m EXCEPT !.highest_justified_epoch = q1.ret.val]
        q2 == highest_finalized_epoch(p, q1.rest) IN
    IF ~q2.ret.ok THEN [ret |-> q2.ret, metadata |-> m1, calls |-> q1.calls \o q2.calls]
    ELSE
    LET m2 == [m1 EXCEPT !.highest_finalized_epoch = q2.ret.val]
        q3 == checkpoint_hashes(p, m.highest_finalized_epoch, q2.rest) IN
    IF ~q3.ret.ok
    THEN [ret |-> q3.ret, metadata |-> m2, calls |-> q1.calls \o q2.calls \o q3.calls]
    ELSE [ ret |-> Ok(Unit),
           metadata |-> [m2 EXCEPT !.highest_finalized_hash = q3.ret.val],
           calls |-> q1.calls \o q2.calls \o q3.calls ]

\* the three values are written only once all three queries succeeded
MutUpdateMetadataAtomic(p, m, rs) ==
    LET q1 == highest_justified_epoch(p, rs) IN
    IF ~q1.ret.ok THEN [ret |-> q1.ret, metadata |-> m, calls |-> q1.calls]
    ELSE
    LET q2 == highest_finalized_epoch(p, q1.rest) IN
    IF ~q2.ret.ok THEN [ret |-> q2.ret, metadata |-> m, calls |-> q1.calls \o q2.calls]
    ELSE
    LET q3 == checkpoint_hashes(p, q2.ret.val, q2.rest) IN
    IF ~q3.ret.ok
    THEN [ret |-> q3.ret, metadata |-> m, calls |-> q1.calls \o q2.calls \o q3.calls]
    ELSE [ ret |-> Ok(Unit),
           metadata |-> [m EXCEPT !.highest_justified_epoch = q1.ret.val,
                                  !.highest_finalized_epoch = q2.ret.val,
                                  !.highest_finalized_hash = q3.ret.val],
           calls |-> q1.calls \o q2.calls \o q3.calls ]

\* the record is rebuilt from its default before the queries
MutUpdateMetadataResetsGas(p, m, rs) ==
    LET m0 == [m EXCEPT !.vote_gas_used = DefaultMetadata.vote_gas_used]
        q1 == highest_justified_epoch(p, rs) IN
    IF ~q1.ret.ok THEN [ret |-> q1.ret, metadata |-> m0, calls |-> q1.calls]
    ELSE
    LET m1 == [m0 EXCEPT !.highest_justified_epoch = q1.ret.val]
        q2 == highest_finalized_epoch(p, q1.rest) IN
    IF ~q2.ret.ok THEN [ret |-> q2.ret, metadata |-> m1, calls |-> q1.calls \o q2.calls]
    ELSE
    LET m2 == [m1 EXCEPT !.highest_finalized_epoch = q2.ret.val]
        q3 == checkpoint_hashes(p, m2.highest_finalized_epoch, q2.rest) IN
    IF ~q3.ret.ok
    THEN [ret |-> q3.ret, metadata |-> m2, calls |-> q1.calls \o q2.calls \o q3.calls]
    ELSE [ ret |-> Ok(Unit),
           metadata |-> [m2 EXCEPT !.highest_finalized_hash = q3.ret.val],
           calls |-> q1.calls \o q2.calls \o q3.calls ]

\* each `?` returns the query's error with the metadata as written so far
update_metadata(p, m, rs) ==
    LET q1 == highest_justified_epoch(p, rs) IN
    IF ~q1.ret.ok THEN [ret |-> q1.ret, metadata |-> m, calls |-> q1.calls]
    ELSE
    LET m1 == [m EXCEPT !.highest_justified_epoch = q1.ret.val]
        q2 == highest_finalized_epoch(p, q1.rest) IN
    IF ~q2.ret.ok THEN [ret |-> q2.ret, metadata |-> m1, calls |-> q1.calls \o q2.calls]
    ELSE
    LET m2 == [m1 EXCEPT !.highest_finalized_epoch = q2.ret.val]
        q3 == checkpoint_hashes(p, m2.highest_finalized_epoch, q2.rest) IN
    IF ~q3.ret.ok
    THEN [ret |-> q3.ret, metadata |-> m2, calls |-> q1.calls \o q2.calls \o q3.calls]
    ELSE [ ret |-> Ok(Unit),
           metadata |-> [m2 EXCEPT !.highest_finalized_hash = q3.ret.val],
           calls |-> q1.calls \o q2.calls \o q3.calls ]

---------------------------------------------------------------------------
(* HybridCasper::init_state. *)

NewContractCall(address, balance, nonce) ==
    [fn |-> "new_contract", address |-> address, balance |-> balance, nonce |-> nonce]
InitCodeCall(address, code, outcome) ==
    [fn |-> "init_code", address |-> address, code |-> code, result |-> outcome]

\* the RLP decoder is installed whatever the flag says
MutInitStateAlwaysDecoder(p, st, outcomes) ==
    LET s0 == new_contract(st, p.contract_address, p.contract_balance, 0)
        c0 == <<NewContractCall(p.contract_address, p.contract_balance, 0)>>
        s1 == init_code(s0, p.contract_address, p.contract_code, outcomes[1])
        c1 == Append(c0, InitCodeCall(p.contract_address, p.contract_code, outcomes[1]))
        s2 == init_code(s1, p.purity_checker_contract_address,
                        p.purity_checker_contract_code, outcomes[2])
        c2 == Append(c1, InitCodeCall(p.purity_checker_contract_address,
                                      p.purity_checker_contract_code, outcomes[2]))
        s3 == init_code(s2, p.msg_hasher_contract_address,
                        p.msg_hasher_contract_code, outcomes[3])
        c3 == Append(c2, InitCodeCall(p.msg_hasher_contract_address,
                                      p.msg_hasher_contract_code, outcomes[3]))
        s4 == init_code(s3, p.rlp_decoder_contract_address,
                        p.rlp_decoder_contract_code, outcomes[4])
        c4 == Append(c3, InitCodeCall(p.rlp_decoder_contract_address,
                                      p.rlp_decoder_contract_code, outcomes[4]))
    IN  IF ~outcomes[1].ok
        THEN [ret |-> Err(IntoError(outcomes[1].err)), state |-> s1, calls |-> c1]
        ELSE IF ~outcomes[2].ok
        THEN [ret |-> Err(IntoError(outcomes[2].err)), state |-> s2, calls |-> c2]
        ELSE IF ~outcomes[3].ok
        THEN [ret |-> Err(IntoError(outcomes[3].err)), state |-> s3, calls |-> c3]
        ELSE IF ~outcomes[4].ok
        THEN [ret |-> Err(IntoError(outcomes[4].err)), state |-> s4, calls |-> c4]
        ELSE [ret |-> Ok(Unit), state |-> s4, calls |-> c4]

\* a failed install is not returned: the next install goes ahead
MutInitStateErrorDropped(p, st, outcomes) ==
    LET s0 == new_contract(st, p.contract_address, p.contract_balance, 0)
        c0 == <<NewContractCall(p.contract_address, p.contract_balance, 0)>>
        s1 == init_code(s0, p.contract_address, p.contract_code, outcomes[1])
        c1 == Append(c0, InitCodeCall(p.contract_address, p.contract_code, outcomes[1]))
        s2 == init_code(s1, p.purity_checker_contract_address,
                        p.purity_checker_contract_code, outcomes[2])
        c2 == Append(c1, InitCodeCall(p.purity_checker_contract_address,
                                      p.purity_checker_contract_code, outcomes[2]))
        s3 == init_code(s2, p.msg_hasher_contract_address,
                        p.msg_hasher_contract_code, outcomes[3])
        c3 == Append(c2, InitCodeCall(p.msg_hasher_contract_address,
                                      p.msg_hasher_contract_code, outcomes[3]))
        s4 == init_code(s3, p.rlp_decoder_contract_address,
                        p.rlp_decoder_contract_code, outcomes[4])
        c4 == Append(c3, InitCodeCall(p.rlp_decoder_contract_address,
                                      p.rlp_decoder_contract_code, outcomes[4]))
    IN  IF ~outcomes[1].ok
        THEN [ret |-> Err(IntoError(outcomes[1].err)), state |-> s1, calls |-> c1]
        ELSE IF ~outcomes[3].ok
        THEN [ret |-> Err(IntoError(outcomes[3].err)), state |-> s3, calls |-> c3]
        ELSE IF p.deploy_rlp_decoder
        THEN IF ~outcomes[4].ok
             THEN [ret |-> Err(IntoError(outcomes[4].err)), state |-> s4, calls |-> c4]
             ELSE [ret |-> Ok(Unit), state |-> s4, calls |-> c4]
        ELSE [ret |-> Ok(Unit), state |-> s3, calls |-> c3]

\* `outcomes` are the store's answers to the coming init_code calls, in order
init_state(p, st, outcomes) ==
    LET s0 == new_contract(st, p.contract_address, p.contract_balance, 0)
        c0 == <<NewContractCall(p.contract_address, p.contract_balance, 0)>>
        s1 == init_code(s0, p.contract_address, p.contract_code, outcomes[1])
        c1 == Append(c0, InitCodeCall(p.contract_address, p.contract_code, outcomes[1]))
        s2 == init_code(s1, p.purity_checker_contract_address,
                        p.purity_checker_contract_code, outcomes[2])
        c2 == Append(c1, InitCodeCall(p.purity_checker_contract_address,
                                      p.purity_checker_contract_code, outcomes[2]))
        s3 == init_code(s2, p.msg_hasher_contract_address,
                        p.msg_hasher_contract_code, outcomes[3])
        c3 == Append(c2, InitCodeCall(p.msg_hasher_contract_address,
                                      p.msg_hasher_contract_code, outcomes[3]))
        s4 == init_code(s3, p.rlp_decoder_contract_address,
                        p.rlp_decoder_contract_code, outcomes[4])
        c4 == Append(c3, InitCodeCall(p.rlp_decoder_contract_address,
                                      p.rlp_decoder_contract_code, outcomes[4]))
    IN  IF ~outcomes[1].ok
        THEN [ret |-> Err(IntoError(outcomes[1].err)), state |-> s1, calls |-> c1]
        ELSE IF ~outcomes[2].ok
        THEN [ret |-> Err(IntoError(outcomes[2].err)), state |-> s2, calls |-> c2]
        ELSE IF ~outcomes[3].ok
        THEN [ret |-> Err(IntoError(outcomes[3].err)), state |-> s3, calls |-> c3]
        ELSE IF p.deploy_rlp_decoder
        THEN IF ~outcomes[4].ok
             THEN [ret |-> Err(IntoError(outcomes[4].err)), state |-> s4, calls |-> c4]
             ELSE [ret |-> Ok(Unit), state |-> s4, calls |-> c4]
        ELSE [ret |-> Ok(Unit), state |-> s3, calls |-> c3]

---------------------------------------------------------------------------
(* What the host hands to the operations. *)

Words == 0..MaxWord

\* the host's answer to one system call: an error text, or the output
CallResults ==
    {Err("reverted")} \cup {Ok(<<>>)} \cup {Ok(<<w>>) : w \in Words}
Answers(n) == [1..n -> CallResults]
\* of the answers kept ready, those beyond the first n were never asked for;
\* they are fixed, so that one behaviour is not counted many times
Unasked(rs, n) == \A i \in (n + 1)..Len(rs) : rs[i] = Err("reverted")

\* the store's answer to one init_code
StoreResults == {Ok(Unit), Err("trie")}

\* transactions: signed or not, a create or a call, a payload
PayloadBytes == {6, 20, 220, 233}
Payloads == UNION {[1..n -> PayloadBytes] : n \in 0..MaxDataLen}
Actions == {<<"Create">>} \cup {<<"Call", a>> : a \in {64, 153}}
Transactions == [unsigned : BOOLEAN, action : Actions, data : Payloads]
\* the payloads the spec's examples name: short, the selector, one byte more
SampleTransactions ==
    [unsigned : BOOLEAN, action : Actions,
     data : {<<233, 220, 6>>, VoteSelector, VoteSelector \o <<6>>}]

\* the metadata record a block comes with: gas already counted, stale epochs
MetadataInputs ==
    [ vote_gas_used : {0, 21000},
      highest_justified_epoch : {0, 1},
      highest_finalized_epoch : {0, 1},
      highest_finalized_hash : {0, 1} ]

\* the state a genesis build starts from: nothing there, or every address taken
OccupiedState ==
    [a \in Addresses |->
        [exists |-> TRUE, balance |-> U256From(3), nonce |-> 1, code |-> <<254>>]]
StateInputs == {EmptyState, OccupiedState}

\* no operation is in progress and no result is pending
NoOp == [op |-> "none"]

InitOver(S, metadatas, states) ==
    /\ cfg \in Configs(S)
    /\ params = None
    /\ metadata \in metadatas
    /\ state \in states
    /\ last = NoOp

---------------------------------------------------------------------------
(* The operations. All are synchronous: the host calls one, it runs to its *)
(* return (`last` holds what it was given, did and returned), the host     *)
(* takes the result (Return) and may call again.                           *)

\* HybridCasper::new(HybridCasperParams::from(cfg))
New ==
    /\ params = None /\ last = NoOp
    /\ params' = Some(From(cfg))
    /\ last' = [op |-> "new"]
    /\ UNCHANGED <<cfg, metadata, state>>

\* HybridCasper::new(HybridCasperParams::default())
NewDefault ==
    /\ params = None /\ last = NoOp
    /\ params' = Some(Default)
    /\ last' = [op |-> "new_default"]
    /\ UNCHANGED <<cfg, metadata, state>>

IsVoteTransaction(T) ==
    /\ params # None /\ last = NoOp
    /\ \E transaction \in T :
          last' = [ op |-> "is_vote_transaction",
                    transaction |-> transaction,
                    ret |-> is_vote_transaction(params[1], transaction) ]
    /\ UNCHANGED <<cfg, params, metadata, state>>

InitState ==
    /\ params # None /\ last = NoOp
    /\ \E outcomes \in [1..4 -> StoreResults] :
          LET r == init_state(params[1], state, outcomes)
          IN  /\ state' = r.state
              /\ last' = [ op |-> "init_state", before |-> state,
                           ret |-> r.ret, calls |-> r.calls ]
    /\ UNCHANGED <<cfg, params, metadata>>

InitCasperContract ==
    /\ params # None /\ last = NoOp
    /\ \E rs \in Answers(2) :
          LET r == init_casper_contract(params[1], rs)
          IN  /\ Unasked(rs, Len(r.calls))
              /\ last' = [op |-> "init_casper_contract", ret |-> r.ret, calls |-> r.calls]
    /\ UNCHANGED <<cfg, params, metadata, state>>

OnNewEpoch ==
    /\ params # None /\ last = NoOp
    /\ \E block_number \in 0..MaxBlock, rs \in Answers(2) :
          LET r == on_new_epoch(params[1], block_number, rs)
          IN  /\ Unasked(rs, Len(r.calls))
              /\ last' = [ op |-> "on_new_epoch", block_number |-> block_number,
                           panic |-> r.panic, ret |-> r.ret, calls |-> r.calls ]
    /\ UNCHANGED <<cfg, params, metadata, state>>

HighestJustifiedEpoch ==
    /\ params # None /\ last = NoOp
    /\ \E rs \in Answers(2) :
          LET r == highest_justified_epoch(params[1], rs)
          IN  /\ Unasked(rs, Len(r.calls))
              /\ last' = [op |-> "highest_justified_epoch", ret |-> r.ret, calls |-> r.calls]
    /\ UNCHANGED <<cfg, params, metadata, state>>

HighestFinalizedEpoch ==
    /\ params # None /\ last = NoOp
    /\ \E rs \in Answers(2) :
          LET r == highest_finalized_epoch(params[1], rs)
          IN  /\ Unasked(rs, Len(r.calls))
              /\ last' = [op |-> "highest_finalized_epoch", ret |-> r.ret, calls |-> r.calls]
    /\ UNCHANGED <<cfg, params, metadata, state>>

CheckpointHashes ==
    /\ params # None /\ last = NoOp
    /\ \E epoch \in Words, rs \in Answers(2) :
          LET r == checkpoint_hashes(params[1], epoch, rs)
          IN  /\ Unasked(rs, Len(r.calls))
              /\ last' = [ op |-> "checkpoint_hashes", epoch |-> epoch,
                           ret |-> r.ret, calls |-> r.calls ]
    /\ UNCHANGED <<cfg, params, metadata, state>>

UpdateMetadata ==
    /\ params # None /\ last = NoOp
    /\ \E rs \in Answers(3) :
          LET r == update_metadata(params[1], metadata, rs)
          IN  /\ Unasked(rs, Len(r.calls))
              /\ metadata' = r.metadata
              /\ last' = [ op |-> "update_metadata", before |-> metadata,
                           ret |-> r.ret, calls |-> r.calls ]
    /\ UNCHANGED <<cfg, params, state>>

\* the host takes the result of the call that returned
Return ==
    /\ last # NoOp
    /\ last' = NoOp
    /\ UNCHANGED <<cfg, params, metadata, state>>

---------------------------------------------------------------------------
(* Specifications: one per component, and the whole engine. *)

InitParams == InitOver(AllFields, {DefaultMetadata}, {EmptyState})
NextParams == New \/ NewDefault \/ Return
SpecParams == InitParams /\ [][NextParams]_vars

InitVote == InitOver({"contract_address"}, {DefaultMetadata}, {EmptyState})
NextVote == New \/ IsVoteTransaction(Transactions) \/ Return
SpecVote == InitVote /\ [][NextVote]_vars

InitGenesis ==
    InitOver(AddressFields \cup CodeFields \cup {"contract_balance", "deploy_rlp_decoder"},
             {DefaultMetadata}, StateInputs)
NextGenesis == New \/ InitState \/ Return
SpecGenesis == InitGenesis /\ [][NextGenesis]_vars

InitBridge ==
    InitOver({"contract_address", "epoch_length", "warm_up_period",
              "min_deposit_size", "non_revert_min_deposits"},
             {DefaultMetadata}, {EmptyState})
NextBridge ==
    \/ New
    \/ InitCasperContract
    \/ OnNewEpoch
    \/ HighestJustifiedEpoch
    \/ HighestFinalizedEpoch
    \/ CheckpointHashes
    \/ Return
SpecBridge == InitBridge /\ [][NextBridge]_vars

InitMeta ==
    InitOver({"contract_address", "non_revert_min_deposits"}, MetadataInputs, {EmptyState})
NextMeta == New \/ UpdateMetadata \/ Return
SpecMeta == InitMeta /\ [][NextMeta]_vars

Init == InitOver({"rlp_decoder_contract_address"}, {DefaultMetadata}, {EmptyState})
Next ==
    \/ New
    \/ NewDefault
    \/ IsVoteTransaction(SampleTransactions)
    \/ InitState
    \/ InitCasperContract
    \/ OnNewEpoch
    \/ HighestJustifiedEpoch
    \/ HighestFinalizedEpoch
    \/ CheckpointHashes
    \/ UpdateMetadata
    \/ Return
Spec == Init /\ [][Next]_vars

---------------------------------------------------------------------------
(* Properties. *)

\* the parameter set the engine holds
P == params[1]

\* the error a failed system call surfaces as
SystemCallError(cause) == Err([error |-> [kind |-> "FailedSystemCall", cause |-> cause]])

(* C1: is_vote_transaction returns true exactly when the transaction is
   unsigned, is a call to the configured main-contract address, carries at
   least 4 payload bytes, and the first 4 are e9 dc 06 14; later bytes do not
   matter. *)
C1_VoteIffFourConditions ==
    last.op = "is_vote_transaction" =>
        LET tx == last.transaction
        IN  last.ret = ( /\ tx.unsigned
                         /\ tx.action[1] = "Call"
                         /\ tx.action[2] = P.contract_address
                         /\ Len(tx.data) >= 4
                         /\ tx.data[1] = 233 /\ tx.data[2] = 220
                         /\ tx.data[3] = 6 /\ tx.data[4] = 20 )

\* a vote with a byte after the selector was classified
C1_Witness ==
    /\ last.op = "is_vote_transaction"
    /\ last.ret
    /\ Len(last.transaction.data) = 5

(* C2: with a positive epoch_length, on_new_epoch makes exactly one call, the
   initialize_epoch payload for epoch block_number / epoch_length sent to the
   main contract, when block_number mod epoch_length = 0, and returns that
   call's result; otherwise it makes no call and returns success. *)
C2_EpochBoundaryCall ==
    (last.op = "on_new_epoch" /\ P.epoch_length > 0) =>
        /\ ~last.panic
        /\ IF last.block_number % P.epoch_length = 0
           THEN /\ Len(last.calls) = 1
                /\ last.calls[1].address = P.contract_address
                /\ last.calls[1].data =
                      [ function |-> "initialize_epoch",
                        args |-> <<last.block_number \div P.epoch_length>> ]
                /\ last.ret = IF last.calls[1].result.ok
                              THEN Ok(Unit)
                              ELSE SystemCallError(last.calls[1].result.err)
           ELSE /\ last.calls = <<>>
                /\ last.ret = Ok(Unit)

\* epoch length 5, block 10: one call, for epoch 2
C2_Witness ==
    /\ last.op = "on_new_epoch"
    /\ P.epoch_length = 5
    /\ last.block_number = 10
    /\ Len(last.calls) = 1
    /\ last.calls[1].data.args = <<2>>

\* a query's answer holds a value: the call succeeded and its output decodes
Answered(call) == call.result.ok /\ Len(call.result.val) >= 1
Value(call) == call.result.val[1]
Cause(call) == IF call.result.ok THEN "Invalid data" ELSE call.result.err

QueryOrder == <<"highest_justified_epoch", "highest_finalized_epoch", "checkpoint_hashes">>

(* C3: update_metadata calls highest_justified_epoch, highest_finalized_epoch,
   checkpoint_hashes in that order, and the epoch sent with checkpoint_hashes
   is the value the highest_finalized_epoch call of the same invocation
   returned. *)
C3_QueriesCausallyOrdered ==
    last.op = "update_metadata" =>
        /\ Len(last.calls) \in 1..3
        /\ \A i \in 1..Len(last.calls) :
              /\ last.calls[i].data.function = QueryOrder[i]
              /\ last.calls[i].address = P.contract_address
        /\ Len(last.calls) = 3 =>
              last.calls[3].data.args = <<Value(last.calls[2])>>

\* the hash was asked for a finalized epoch other than the one held before
C3_Witness ==
    /\ last.op = "update_metadata"
    /\ Len(last.calls) = 3
    /\ Value(last.calls[2]) # last.before.highest_finalized_epoch
    /\ last.calls[3].data.args = <<Value(last.calls[2])>>

(* C4: when the k-th query of update_metadata fails, update_metadata returns
   that query's error, makes no later query, and leaves the fields of queries
   1..k-1 at the new values and those of queries k..3 at their prior values. *)
C4_PartialUpdateOnFailure ==
    last.op = "update_metadata" =>
        LET k == Len(last.calls)
            failed == {i \in 1..k : ~Answered(last.calls[i])}
        IN  /\ last.ret.ok <=> (k = 3 /\ failed = {})
            /\ failed # {} =>
                  /\ failed = {k}
                  /\ last.ret = SystemCallError(Cause(last.calls[k]))
                  /\ metadata.highest_justified_epoch =
                        IF k > 1 THEN Value(last.calls[1])
                        ELSE last.before.highest_justified_epoch
                  /\ metadata.highest_finalized_epoch =
                        IF k > 2 THEN Value(last.calls[2])
                        ELSE last.before.highest_finalized_epoch
                  /\ metadata.highest_finalized_hash = last.before.highest_finalized_hash

\* the hash query failed after both epochs had changed
C4_Witness ==
    /\ last.op = "update_metadata"
    /\ Len(last.calls) = 3
    /\ ~last.ret.ok
    /\ metadata.highest_justified_epoch # last.before.highest_justified_epoch
    /\ metadata.highest_finalized_epoch # last.before.highest_finalized_epoch
    /\ metadata.highest_finalized_hash = last.before.highest_finalized_hash

(* C5: when the three queries return j, f and h, update_metadata succeeds and
   the metadata holds j, f, h with vote_gas_used as before; vote_gas_used is
   unchanged in every outcome. *)
C5_SuccessAndGasFrame ==
    last.op = "update_metadata" =>
        /\ metadata.vote_gas_used = last.before.vote_gas_used
        /\ (Len(last.calls) = 3 /\ \A i \in 1..3 : Answered(last.calls[i])) =>
              /\ last.ret = Ok(Unit)
              /\ metadata = [ vote_gas_used |-> last.before.vote_gas_used,
                              highest_justified_epoch |-> Value(last.calls[1]),
                              highest_finalized_epoch |-> Value(last.calls[2]),
                              highest_finalized_hash |-> Value(last.calls[3]) ]

\* a record with gas counted was refreshed to new values
C5_Witness ==
    /\ last.op = "update_metadata"
    /\ last.ret.ok
    /\ last.before.vote_gas_used = 21000
    /\ metadata.highest_justified_epoch # last.before.highest_justified_epoch
    /\ metadata.highest_finalized_hash # last.before.highest_finalized_hash

\* the installs init_state made, in order, and where code was written
Installs == SubSeq(last.calls, 2, Len(last.calls))
WroteCodeAt(a) == \E i \in 1..Len(Installs) : Installs[i].address = a
OtherContracts ==
    {P.contract_address, P.purity_checker_contract_address, P.msg_hasher_contract_address}

\* what a successful init_state does whatever the flag says
GenesisSeeded ==
    /\ last.calls[1] = [ fn |-> "new_contract", address |-> P.contract_address,
                         balance |-> P.contract_balance, nonce |-> 0 ]
    /\ state[P.contract_address].exists
    /\ state[P.contract_address].balance = P.contract_balance
    /\ state[P.contract_address].nonce = 0
    /\ Len(Installs) >= 3
    /\ Installs[1].address = P.contract_address
    /\ Installs[1].code = P.contract_code
    /\ Installs[2].address = P.purity_checker_contract_address
    /\ Installs[2].code = P.purity_checker_contract_code
    /\ Installs[3].address = P.msg_hasher_contract_address
    /\ Installs[3].code = P.msg_hasher_contract_code

(* C6, as stated: a successful init_state creates the main-contract account
   with the configured balance and nonce zero, writes code at the main,
   purity-checker and message-hasher addresses, and writes code at the
   RLP-decoder address if and only if deploy_rlp_decoder is true. *)
C6_DecoderWrittenIffFlag ==
    (last.op = "init_state" /\ last.ret.ok) =>
        /\ GenesisSeeded
        /\ WroteCodeAt(P.rlp_decoder_contract_address) <=> P.deploy_rlp_decoder

(* C6, amended: as above, but with the flag false code is written at the
   RLP-decoder address exactly when that address is also the address of the
   main contract, the purity checker or the message hasher; when it is none of
   them the account there is left as it was. With the flag true the decoder's
   code is the fourth and last install. *)
C6_DecoderWrittenIffFlagOrShared ==
    (last.op = "init_state" /\ last.ret.ok) =>
        /\ GenesisSeeded
        /\ P.deploy_rlp_decoder =>
              /\ Len(Installs) = 4
              /\ Installs[4].address = P.rlp_decoder_contract_address
              /\ Installs[4].code = P.rlp_decoder_contract_code
              /\ state[P.rlp_decoder_contract_address].code = P.rlp_decoder_contract_code
        /\ ~P.deploy_rlp_decoder =>
              /\ Len(Installs) = 3
              /\ WroteCodeAt(P.rlp_decoder_contract_address)
                    <=> P.rlp_decoder_contract_address \in OtherContracts
              /\ P.rlp_decoder_contract_address \notin OtherContracts =>
                    state[P.rlp_decoder_contract_address]
                        = last.before[P.rlp_decoder_contract_address]

\* a genesis build without the decoder, on a state that held code there
C6_Witness ==
    /\ last.op = "init_state"
    /\ last.ret.ok
    /\ ~P.deploy_rlp_decoder
    /\ P.rlp_decoder_contract_address \notin OtherContracts
    /\ last.before = OccupiedState
    /\ state[P.rlp_decoder_contract_address].code = <<254>>
    /\ state[P.contract_address].code = P.contract_code

\* the installs init_state is to make, in order
Planned ==
    << [address |-> P.contract_address, code |-> P.contract_code],
       [address |-> P.purity_checker_contract_address,
        code |-> P.purity_checker_contract_code],
       [address |-> P.msg_hasher_contract_address,
        code |-> P.msg_hasher_contract_code] >>
    \o IF P.deploy_rlp_decoder
       THEN <<[address |-> P.rlp_decoder_contract_address,
               code |-> P.rlp_decoder_contract_code]>>
       ELSE <<>>

Max(S) == CHOOSE x \in S : \A y \in S : y <= x

(* C7: when an install of init_state fails, init_state returns that error,
   makes no later install (order: main contract, purity checker, message
   hasher, RLP decoder), and the account creation and the installs that
   succeeded stay in the state. *)
C7_InstallFailureStopsNoRollback ==
    (last.op = "init_state" /\ \E i \in 1..Len(Installs) : ~Installs[i].result.ok) =>
        LET n == Len(Installs)
            done(a) == {i \in 1..n : Installs[i].result.ok /\ Installs[i].address = a}
        IN  /\ n <= Len(Planned)
            /\ \A i \in 1..n :
                  /\ Installs[i].address = Planned[i].address
                  /\ Installs[i].code = Planned[i].code
                  /\ Installs[i].result.ok <=> i < n
            /\ last.ret = Err([error |-> Installs[n].result.err])
            /\ last.calls[1].fn = "new_contract"
            /\ \A a \in Addresses :
                  /\ state[a].code =
                        IF done(a) # {} THEN Installs[Max(done(a))].code
                        ELSE IF a = P.contract_address THEN <<>>
                        ELSE last.before[a].code
                  /\ IF a = P.contract_address
                     THEN /\ state[a].exists
                          /\ state[a].balance = P.contract_balance
                          /\ state[a].nonce = 0
                     ELSE /\ state[a].balance = last.before[a].balance
                          /\ state[a].nonce = last.before[a].nonce
                          /\ state[a].exists <=> (last.before[a].exists \/ done(a) # {})

\* the message hasher's install failed; the two before it are in the state
C7_Witness ==
    /\ last.op = "init_state"
    /\ ~last.ret.ok
    /\ Len(Installs) = 3
    /\ last.before = EmptyState
    /\ state[P.contract_address].exists
    /\ state[P.purity_checker_contract_address].code = P.purity_checker_contract_code
    /\ P.purity_checker_contract_address # P.contract_address

BridgeOps == {"init_casper_contract", "on_new_epoch", "highest_justified_epoch",
              "highest_finalized_epoch", "checkpoint_hashes"}
QueryOps == {"highest_justified_epoch", "highest_finalized_epoch", "checkpoint_hashes"}

(* C8: each bridge operation calls the host at most once; when that call
   fails, or (for the three queries) its output does not decode, the operation
   returns a FailedSystemCall error carrying the cause, never success. *)
C8_FailureSurfacedOnce ==
    last.op \in BridgeOps =>
        /\ Len(last.calls) <= 1
        /\ Len(last.calls) = 1 =>
              LET call == last.calls[1]
                  failed == \/ ~call.result.ok
                            \/ last.op \in QueryOps /\ ~Answered(call)
              IN  /\ failed => last.ret = SystemCallError(Cause(call))
                  /\ ~failed => last.ret.ok

\* a query whose call succeeded with an output too short to decode
C8_Witness ==
    /\ last.op = "highest_justified_epoch"
    /\ Len(last.calls) = 1
    /\ last.calls[1].result = Ok(<<>>)
    /\ last.ret = SystemCallError("Invalid data")

\* the main contract's built-in code with `address` in the placeholder's place
CasperCodeFor(address) ==
    <<115>> \o [i \in 1..19 |-> 0] \o <<address>> \o <<255>>

\* the documented defaults, field by field
Documented ==
    [ contract_code |-> CasperCodeFor(67),
      contract_address |-> 64,
      contract_balance |-> [m |-> 125, e |-> 22],
      purity_checker_contract_code |-> <<161>>,
      purity_checker_contract_address |-> 65,
      msg_hasher_contract_code |-> <<162>>,
      msg_hasher_contract_address |-> 66,
      rlp_decoder_contract_code |-> <<163>>,
      rlp_decoder_contract_address |-> 67,
      deploy_rlp_decoder |-> TRUE,
      epoch_length |-> 5,
      withdrawal_delay |-> 150,
      dynasty_logout_delay |-> 70,
      base_interest_factor |-> 70000000,
      base_penalty_factor |-> 2000,
      min_deposit_size |-> [m |-> 5, e |-> 18],
      warm_up_period |-> 5,
      non_revert_min_deposits |-> [m |-> 1, e |-> 18] ]

(* C9, as stated: every unset field resolves to its documented default and
   every set field to the configured value, each independently of the other
   fields; the empty record resolves to the same parameter set each time. *)
C9_FieldsResolveIndependently ==
    /\ last.op = "new" =>
          \A f \in AllFields :
              P[f] = IF cfg[f] = None THEN Documented[f] ELSE cfg[f][1]
    /\ last.op = "new_default" => P = Documented

(* C9, amended: as above for every field but the main contract's code; unset,
   it resolves to the built-in code with the resolved RLP-decoder address
   (configured or default) in the placeholder's place, so it follows the
   rlp_decoder_contract_address field. *)
C9_FieldsResolveCodeFollowsDecoder ==
    /\ last.op = "new" =>
          /\ \A f \in AllFields \ {"contract_code"} :
                P[f] = IF cfg[f] = None THEN Documented[f] ELSE cfg[f][1]
          /\ P.contract_code =
                IF cfg.contract_code = None
                THEN CasperCodeFor(P.rlp_decoder_contract_address)
                ELSE cfg.contract_code[1]
    /\ last.op = "new_default" => P = Documented

\* a record that sets the decoder's address and leaves the main code unset,
\* together with another field, was resolved
C9_Witness ==
    /\ last.op = "new"
    /\ cfg.rlp_decoder_contract_address = Some(153)
    /\ cfg.contract_code = None
    /\ cfg.withdrawal_delay # None
    /\ P.contract_code = CasperCodeFor(153)
    /\ P.epoch_length = 5

ResolvedAddresses(p) ==
    << p.contract_address, p.purity_checker_contract_address,
       p.msg_hasher_contract_address, p.rlp_decoder_contract_address >>
PairwiseDistinct(s) == \A i, j \in 1..Len(s) : i # j => s[i] # s[j]

(* C10, as stated, first half: in every parameter set the resolver produces
   the four contract addresses are pairwise distinct. *)
C10_AddressesAlwaysDistinct ==
    params # None => PairwiseDistinct(ResolvedAddresses(P))

(* C10, amended: with no address configured the four addresses are 0x40, 0x41,
   0x42, 0x43, pairwise distinct; a configured address is taken as given, so
   two may coincide; no operation changes the parameter set once the engine is
   constructed. *)
C10_DefaultsDistinctAndFixed ==
    [][ /\ params # None => params' = params
        /\ params' # None =>
              /\ \A i \in 1..4 :
                    LET f == <<"contract_address", "purity_checker_contract_address",
                               "msg_hasher_contract_address",
                               "rlp_decoder_contract_address">>[i]
                    IN  (cfg[f] = None \/ last'.op = "new_default") =>
                            ResolvedAddresses(params'[1])[i] = 63 + i
              /\ (last'.op = "new_default" \/ \A f \in AddressFields : cfg[f] = None) =>
                    PairwiseDistinct(ResolvedAddresses(params'[1]))
      ]_vars

\* an engine built with no address configured has been through a metadata
\* refresh and a genesis build and holds the four default addresses
C10_Witness ==
    /\ params # None
    /\ \A f \in AddressFields : cfg[f] = None
    /\ ResolvedAddresses(P) = <<64, 65, 66, 67>>
    /\ last.op = "update_metadata"
    /\ state # EmptyState
====
